---- MODULE Spec2Model ----
(***************************************************************************)
(* A model of Code/FTP_retriever_advanced.py: the recursive FTP mirror     *)
(* (download_ftp_directory / download_ftp_item), the bounded retry of      *)
(* retry_with_backoff, the scoped session of ftp_connection and the        *)
(* per-accession loop of __main__.                                         *)
(*                                                                         *)
(* Remote paths are sequences of entry names; an entry name is the         *)
(* sequence of the words of the listing line from its 9th word on.  The    *)
(* recursion of the walker is an explicit stack of frames, and a raised    *)
(* exception is the variable exc, which unwinds one frame per step.        *)
(***************************************************************************)
EXTENDS Integers, Sequences, FiniteSets, TLC

VARIABLES
    pc,        \* position of __main__ / download_from_ftp_url / ftp_connection
    argi,      \* index into sys.argv[1:] of the accession being processed
    stack,     \* frames of download_ftp_directory / download_ftp_item, top last
    exc,       \* the exception being raised, or NoExc
    cursor,    \* the session's remote working directory
    sess,      \* the session of the current ftp_connection (with release accounting)
    ldirs,     \* local directories that exist
    lfiles,    \* local regular files: path -> bytes written
    lastExit,  \* how the last download_ftp_directory call ended
    lastItem,  \* how the last download_ftp_item transfer ended
    injected,  \* whether the server or the local disk has misbehaved so far
    bk         \* one call of retry_with_backoff on an arbitrary operation

vars == <<pc, argi, stack, exc, cursor, sess, ldirs, lfiles, lastExit, lastItem, injected, bk>>

----------------------------------------------------------------------------
(* Bounds of the model *)

\* the number of chunks in which the largest remote file arrives
FileChunks == 2
\* ticks per second: random.uniform(0, 1) is one of 0 .. JitterSteps-1 ticks
JitterSteps == 2
\* retry_with_backoff is also checked alone for max_retries in 0 .. MaxRetriesArg
MaxRetriesArg == 3
\* ... for initial_delay in 1 .. MaxInitialDelay seconds
MaxInitialDelay == 2
\* ... and for max_delay in 1 .. MaxDelayArg seconds
MaxDelayArg == 5

(* Defaults of retry_with_backoff *)
DefaultMaxRetries == 5
DefaultInitialDelay == 1
DefaultMaxDelay == 60

----------------------------------------------------------------------------
(* Exceptions *)

NoExc == [cls |-> "none", msg |-> "", last |-> ""]
Exc(cls, msg) == [cls |-> cls, msg |-> msg, last |-> ""]
ErrorTemp == Exc("error_temp", "421")
ErrorTemp450 == Exc("error_temp", "450")
ErrorPerm550 == Exc("error_perm", "550")
ErrorPerm553 == Exc("error_perm", "553")
OSErr == Exc("OSError", "")
\* FileExistsError / NotADirectoryError / IsADirectoryError / FileNotFoundError
LocalErr == Exc("OSError", "path")

\* what a remote command can raise besides its natural reply (ftplib.all_errors)
Faults == {ErrorTemp, ErrorPerm550, ErrorPerm553, OSErr}

IsExc(r) == r.cls # "none"
IsTemp(e) == e.cls = "error_temp"
IsPerm(e) == e.cls = "error_perm"
\* str(e).startswith('550')
Is550(e) == e.msg = "550"

\* Exception(f"Max retries reached. Last error: {e}")
MaxRetriesReached(e) == [cls |-> "Exception", msg |-> "Max retries reached", last |-> e.msg]

----------------------------------------------------------------------------
(* The accessions given on the command line and the remote server's tree *)

Argv == <<"G1", "G2">>

W(w) == <<w>>
Root(acc) == <<W(acc)>>

RemoteDirs ==
    { <<>>, Root("G1"), Root("G1") \o <<W("s")>>, Root("G1") \o <<W("m")>>, Root("G2") }

RemoteFileSet ==
    { Root("G1") \o <<W("a")>>,
      Root("G1") \o <<W("s"), <<"b", "c">> >>,
      Root("G1") \o <<W("m"), W("c")>>,
      Root("G2") \o <<W("a")>> }

\* the chunks retrbinary hands to its callback
RemoteData(p) ==
    IF p = Root("G1") \o <<W("a")>> THEN [i \in 1..FileChunks |-> i]
    ELSE IF p = Root("G1") \o <<W("s"), <<"b", "c">> >> THEN <<7>>
    ELSE IF p = Root("G1") \o <<W("m"), W("c")>> THEN <<8>>
    ELSE <<9>>

Line(mode, words) == <<mode, "1", "ftp", "ftp", "0", "Jan", "01", "00:00">> \o words

\* the lines ftp.dir() yields in directory d, in the server's order
Listing(d) ==
    IF d = Root("G1") THEN
        << <<"total", "3">>,
           Line("-rw-r--r--", W("a")),
           Line("drwxr-xr-x", W("s")),
           Line("lrwxrwxrwx", W("m")) >>
    ELSE IF d = Root("G1") \o <<W("s")>> THEN << Line("-rw-r--r--", <<"b", "c">>) >>
    ELSE IF d = Root("G1") \o <<W("m")>> THEN << Line("-rw-r--r--", W("c")) >>
    ELSE IF d = Root("G2") THEN << Line("-rw-r--r--", W("a")) >>
    ELSE << >>

\* tokens[0][0] of the words a listing line can start with
FirstChar(word) ==
    CASE word = "drwxr-xr-x" -> "d"
      [] word = "-rw-r--r--" -> "-"
      [] word = "lrwxrwxrwx" -> "l"
      [] OTHER -> "t"

Parent(p) == IF p = <<>> THEN <<>> ELSE SubSeq(p, 1, Len(p) - 1)
Prefixes(p) == { SubSeq(p, 1, n) : n \in 0..Len(p) }
IsPrefix(p, q) == Len(p) <= Len(q) /\ SubSeq(q, 1, Len(p)) = p
Min(a, b) == IF a <= b THEN a ELSE b
RECURSIVE Pow2(_)
Pow2(n) == IF n = 0 THEN 1 ELSE 2 * Pow2(n - 1)

----------------------------------------------------------------------------
(* retry_with_backoff *)

\* the delay without the cap of min(..., max_delay)
backoff_delay_uncapped(initial_delay, retries, jitter, max_delay) ==
    initial_delay * JitterSteps * Pow2(retries) + jitter

\* delay = min(initial_delay * (2 ** retries) + random.uniform(0, 1), max_delay),
\* in ticks of 1/JitterSteps second; jitter is the tick drawn by random.uniform
backoff_delay(initial_delay, retries, jitter, max_delay) ==
    Min(initial_delay * JitterSteps * Pow2(retries) + jitter, max_delay * JitterSteps)

\* the loop giving up one round late: if retries > max_retries
retry_with_backoff_late(retries, max_retries, r) ==
    IF ~IsExc(r) THEN [act |-> "return", exc |-> NoExc, retries |-> retries]
    ELSE IF IsTemp(r) THEN
        IF retries > max_retries
        THEN [act |-> "raise", exc |-> MaxRetriesReached(r), retries |-> retries]
        ELSE [act |-> "sleep", exc |-> NoExc, retries |-> retries + 1]
    ELSE [act |-> "raise", exc |-> r, retries |-> retries]

\* the loop without the check of retries against max_retries
retry_with_backoff_forever(retries, max_retries, r) ==
    IF ~IsExc(r) THEN [act |-> "return", exc |-> NoExc, retries |-> retries]
    ELSE IF IsTemp(r) THEN [act |-> "sleep", exc |-> NoExc, retries |-> retries + 1]
    ELSE [act |-> "raise", exc |-> r, retries |-> retries]

\* the loop retrying every ftplib error: except ftplib.Error
retry_with_backoff_any(retries, max_retries, r) ==
    IF ~IsExc(r) THEN [act |-> "return", exc |-> NoExc, retries |-> retries]
    ELSE IF IsTemp(r) \/ IsPerm(r) THEN
        IF retries >= max_retries
        THEN [act |-> "raise", exc |-> MaxRetriesReached(r), retries |-> retries]
        ELSE [act |-> "sleep", exc |-> NoExc, retries |-> retries + 1]
    ELSE [act |-> "raise", exc |-> r, retries |-> retries]

\* One round of the while-loop: r is what func() did (NoExc: it returned).
\* act "return": return func(); "raise": raise exc; "sleep": sleep and loop again.
retry_with_backoff(retries, max_retries, r) ==
    IF ~IsExc(r) THEN [act |-> "return", exc |-> NoExc, retries |-> retries]
    ELSE IF IsTemp(r) THEN
        IF retries >= max_retries
        THEN [act |-> "raise", exc |-> MaxRetriesReached(r), retries |-> retries]
        ELSE [act |-> "sleep", exc |-> NoExc, retries |-> retries + 1]
    ELSE [act |-> "raise", exc |-> r, retries |-> retries]

----------------------------------------------------------------------------
(* The remote server *)

\* reply to CWD p
CwdReply(p) == IF p \in RemoteDirs THEN NoExc ELSE ErrorPerm550
\* replies to SIZE p: servers differ on the size of a directory
SizeReplies(p) ==
    IF p \in RemoteFileSet THEN {NoExc}
    ELSE IF p \in RemoteDirs THEN {NoExc, ErrorPerm550}
    ELSE {ErrorPerm550}
\* RETR p: the chunks delivered and the final reply
RetrReply(p) ==
    IF p \in RemoteFileSet THEN [n |-> Len(RemoteData(p)), r |-> NoExc]
    ELSE [n |-> 0, r |-> ErrorPerm550]
\* a transfer cut short: k chunks, then the fault
RetrOutcomes(p) ==
    {RetrReply(p)} \cup
    { [n |-> k, r |-> e] : k \in 0..RetrReply(p).n, e \in Faults }

----------------------------------------------------------------------------
(* The local file system *)

\* ensure_dir_exists doing nothing
ensure_dir_exists_noop(dirs, directory) == dirs

\* ensure_dir_exists(directory): os.makedirs creates directory and its missing ancestors
ensure_dir_exists(dirs, directory) == dirs \cup Prefixes(directory)

\* os.makedirs(directory, exist_ok=True) cannot succeed: a regular file is in the way
MakedirsBlocked(d) == \E q \in Prefixes(d) : q \in DOMAIN lfiles
\* open(path, 'wb') cannot succeed: path is a directory or its directory is missing
OpenBlocked(p) == p \in ldirs \/ Parent(p) \notin ldirs
\* open(local_path, 'ab'): create, or keep what is there
open_ab(files, p) == [q \in DOMAIN files \cup {p} |-> IF q \in DOMAIN files THEN files[q] ELSE <<>>]

\* open(local_path, 'wb'): create or truncate
open_wb(files, p) == [q \in DOMAIN files \cup {p} |-> IF q = p THEN <<>> ELSE files[q]]
\* local_file.write(data) for each of the chunks
write_chunks(files, p, chunks) == [files EXCEPT ![p] = @ \o chunks]

----------------------------------------------------------------------------
(* Frames *)

WalkFrame(remote_dir, local_dir, cur) ==
    [fn |-> "download_ftp_directory", pc |-> "pwd", remote |-> remote_dir,
     local |-> local_dir, current |-> <<>>, retries |-> 0, items |-> <<>>,
     index |-> 1, cursor0 |-> cur, disp |-> <<>>, listed |-> FALSE, dirty |-> FALSE]

ItemFrame(remote_path, local_path, cur) ==
    [fn |-> "download_ftp_item", pc |-> "mkdir", remote |-> remote_path,
     local |-> local_path, current |-> <<>>, retries |-> 0, items |-> <<>>,
     index |-> 1, cursor0 |-> cur, disp |-> <<>>, listed |-> FALSE, dirty |-> FALSE]

Top == stack[Len(stack)]
Pop == SubSeq(stack, 1, Len(stack) - 1)
SetTop(f) == [stack EXCEPT ![Len(stack)] = f]
Running(fn, at) ==
    /\ pc = "walk" /\ exc = NoExc /\ stack # <<>>
    /\ Top.fn = fn /\ Top.pc = at

\* how a call of download_ftp_directory ended: at is the statement it ended in,
\* exc the exception it raised (NoExc: it returned)
NoExit ==
    [remote |-> <<>>, local |-> <<>>, cursor0 |-> <<>>, cursor1 |-> <<>>, how |-> "none",
     items |-> <<>>, disp |-> <<>>, listed |-> FALSE, at |-> "none", exc |-> NoExc]
ExitRec(f, how, cur, e) ==
    [remote |-> f.remote, local |-> f.local, cursor0 |-> f.cursor0, cursor1 |-> cur,
     how |-> how, items |-> f.items, disp |-> f.disp, listed |-> f.listed,
     at |-> f.pc, exc |-> e]

\* how a call of download_ftp_item ended: cause is the step that failed, err its exception
NoItem ==
    [remote |-> <<>>, local |-> <<>>, how |-> "none", retries |-> 0, dirty |-> FALSE,
     cause |-> "none", err |-> NoExc]

\* a command sent on the session (after its release it would be a use after release)
NoteCmd(s) == IF s.released THEN [s EXCEPT !.late = TRUE] ELSE s
NoSession ==
    [ftp |-> FALSE, quits |-> 0, closes |-> 0, released |-> FALSE, late |-> FALSE,
     quit |-> "none"]

\* the caller goes on after the call it was waiting in
Resume(f) ==
    IF f.fn = "download_ftp_directory"
    THEN [f EXCEPT !.pc = "loop", !.index = @ + 1]
    ELSE [f EXCEPT !.pc = "end"]
ReturnTo(st) ==
    IF st = <<>> THEN st ELSE [st EXCEPT ![Len(st)] = Resume(st[Len(st)])]

----------------------------------------------------------------------------
(* Initial state: the program starts with an empty working directory *)

BkIdle ==
    [state |-> "idle", max_retries |-> 0, initial_delay |-> 0, max_delay |-> 0,
     retries |-> 0, hist |-> <<>>, sleeps |-> 0, delay |-> 0, exc |-> NoExc]

Init ==
    /\ pc = "main"
    /\ argi = 1
    /\ stack = <<>>
    /\ exc = NoExc
    /\ cursor = <<>>
    /\ sess = NoSession
    /\ ldirs = {<<>>}
    /\ lfiles = [q \in {} |-> <<>>]
    /\ lastExit = NoExit
    /\ lastItem = NoItem
    /\ injected = FALSE
    /\ bk = BkIdle

----------------------------------------------------------------------------
(* __main__, download_gwas_data, download_from_ftp_url, ftp_connection *)

\* for accession in sys.argv[1:]: download_gwas_data(accession)
main_next ==
    /\ pc = "main"
    /\ pc' = IF argi > Len(Argv) THEN "exit" ELSE "connect"
    /\ sess' = NoSession
    /\ lastExit' = NoExit
    /\ lastItem' = NoItem
    /\ UNCHANGED <<argi, stack, exc, cursor, ldirs, lfiles, injected, bk>>

\* ftp = ftplib.FTP(host); when it raises, ftp is None and finally releases nothing
ftp_connect ==
    /\ pc = "connect"
    /\ \E r \in {NoExc} \cup Faults :
        /\ injected' = (injected \/ IsExc(r))
        /\ IF IsExc(r)
           THEN /\ exc' = r
                /\ pc' = "crashed"
                /\ UNCHANGED <<sess, cursor>>
           ELSE /\ sess' = [NoSession EXCEPT !.ftp = TRUE]
                /\ cursor' = <<>>
                /\ pc' = "login"
                /\ UNCHANGED exc
    /\ UNCHANGED <<argi, stack, ldirs, lfiles, lastExit, lastItem, bk>>

\* ftp.login(); yield ftp; the with-body starts with download_ftp_directory(ftp, ftp_path, accession)
ftp_login ==
    /\ pc = "login"
    /\ \E r \in {NoExc} \cup Faults :
        /\ injected' = (injected \/ IsExc(r))
        /\ sess' = NoteCmd(sess)
        /\ IF IsExc(r)
           THEN /\ exc' = r
                /\ pc' = "finally"
                /\ UNCHANGED stack
           ELSE /\ stack' = <<WalkFrame(Root(Argv[argi]), <<W(Argv[argi])>>, cursor)>>
                /\ pc' = "walk"
                /\ UNCHANGED exc
    /\ UNCHANGED <<argi, cursor, ldirs, lfiles, lastExit, lastItem, bk>>

\* the with-body ends: the root walk returned, or an exception left it
with_exit ==
    /\ pc = "walk"
    /\ stack = <<>>
    /\ pc' = "finally"
    /\ UNCHANGED <<argi, stack, exc, cursor, sess, ldirs, lfiles, lastExit, lastItem, injected, bk>>

\* the release without try/finally: skipped when an exception leaves the block
ftp_release_no_finally(s, r) ==
    IF s.ftp /\ ~IsExc(exc)
    THEN [s EXCEPT !.quits = @ + 1,
                   !.closes = IF IsExc(r) THEN @ + 1 ELSE @,
                   !.released = TRUE]
    ELSE s

\* finally: if ftp: try: ftp.quit() except: ftp.close()   (r: what quit() did)
ftp_release(s, r) ==
    IF s.ftp
    THEN [s EXCEPT !.quits = @ + 1,
                   !.closes = IF IsExc(r) THEN @ + 1 ELSE @,
                   !.released = TRUE]
    ELSE s

ftp_finally ==
    /\ pc = "finally"
    /\ \E r \in {NoExc} \cup Faults :
        /\ injected' = (injected \/ IsExc(r))
        /\ sess' = [ftp_release(NoteCmd(sess), r) EXCEPT
                        !.quit = IF IsExc(r) THEN "failed" ELSE "ok"]
    /\ pc' = IF IsExc(exc) THEN "crashed" ELSE "sleep"
    /\ UNCHANGED <<argi, stack, exc, cursor, ldirs, lfiles, lastExit, lastItem, bk>>

\* time.sleep(1), then the next accession
main_sleep ==
    /\ pc = "sleep"
    /\ argi' = argi + 1
    /\ pc' = "main"
    /\ UNCHANGED <<stack, exc, cursor, sess, ldirs, lfiles, lastExit, lastItem, injected, bk>>

----------------------------------------------------------------------------
(* Leaving a frame *)

\* the top frame returns to its caller
Return(how, cur) ==
    /\ stack' = ReturnTo(Pop)
    /\ exc' = NoExc
    /\ lastExit' = IF Top.fn = "download_ftp_directory"
                   THEN ExitRec(Top, how, cur, NoExc) ELSE lastExit

\* the top frame raises e to its caller
Raise(e, cur) ==
    /\ stack' = Pop
    /\ exc' = e
    /\ lastExit' = IF Top.fn = "download_ftp_directory"
                   THEN ExitRec(Top, "raise", cur, e) ELSE lastExit

\* An exception arrives at a call site: line 130 and 132 (the loop) and line 77
\* (inside the except clause) have no handler around them, so it goes on up.
Propagate ==
    /\ pc = "walk"
    /\ IsExc(exc)
    /\ stack # <<>>
    /\ Raise(exc, cursor)
    /\ UNCHANGED <<pc, argi, cursor, sess, ldirs, lfiles, lastItem, injected, bk>>

----------------------------------------------------------------------------
(* directory_exists, called by download_ftp_directory line 94 *)

\* current = ftp.pwd()   (outside the try)
directory_exists_pwd ==
    /\ Running("download_ftp_directory", "pwd")
    /\ \E r \in {NoExc} \cup Faults :
        /\ injected' = (injected \/ IsExc(r))
        /\ IF IsExc(r)
           THEN Raise(r, cursor)
           ELSE /\ stack' = SetTop([Top EXCEPT !.current = cursor, !.pc = "probe"])
                /\ UNCHANGED <<exc, lastExit>>
    /\ sess' = NoteCmd(sess)
    /\ UNCHANGED <<pc, argi, cursor, ldirs, lfiles, lastItem, bk>>

\* ftp.cwd(path); except ftplib.error_perm: return False, and the caller returns
directory_exists_cwd ==
    /\ Running("download_ftp_directory", "probe")
    /\ \E r \in {CwdReply(Top.remote)} \cup Faults :
        /\ injected' = (injected \/ r # CwdReply(Top.remote))
        /\ IF ~IsExc(r)
           THEN /\ cursor' = Top.remote
                /\ stack' = SetTop([Top EXCEPT !.pc = "back"])
                /\ UNCHANGED <<exc, lastExit>>
           ELSE /\ UNCHANGED cursor
                /\ IF IsPerm(r) THEN Return("return", cursor) ELSE Raise(r, cursor)
    /\ sess' = NoteCmd(sess)
    /\ UNCHANGED <<pc, argi, ldirs, lfiles, lastItem, bk>>

\* ftp.cwd(current); return True; except ftplib.error_perm: return False
directory_exists_back ==
    /\ Running("download_ftp_directory", "back")
    /\ \E r \in {CwdReply(Top.current)} \cup Faults :
        /\ injected' = (injected \/ r # CwdReply(Top.current))
        /\ IF ~IsExc(r)
           THEN /\ cursor' = Top.current
                /\ stack' = SetTop([Top EXCEPT !.pc = "mkdir"])
                /\ UNCHANGED <<exc, lastExit>>
           ELSE /\ UNCHANGED cursor
                /\ IF IsPerm(r) THEN Return("return", cursor) ELSE Raise(r, cursor)
    /\ sess' = NoteCmd(sess)
    /\ UNCHANGED <<pc, argi, ldirs, lfiles, lastItem, bk>>

----------------------------------------------------------------------------
(* download_ftp_directory *)

\* ensure_dir_exists(local_dir): os.makedirs(local_dir, exist_ok=True), no handler
walk_ensure_dir ==
    /\ Running("download_ftp_directory", "mkdir")
    /\ \E r \in {IF MakedirsBlocked(Top.local) THEN LocalErr ELSE NoExc, OSErr} :
        /\ injected' = (injected \/ r = OSErr)
        /\ IF IsExc(r)
           THEN /\ Raise(r, cursor)
                /\ UNCHANGED ldirs
           ELSE /\ ldirs' = ensure_dir_exists(ldirs, Top.local)
                /\ stack' = SetTop([Top EXCEPT !.pc = "enter"])
                /\ UNCHANGED <<exc, lastExit>>
    /\ UNCHANGED <<pc, argi, cursor, sess, lfiles, lastItem, bk>>

\* try: retry_with_backoff(change_directory) except Exception: print; return
change_directory ==
    /\ Running("download_ftp_directory", "enter")
    /\ \E r \in {CwdReply(Top.remote)} \cup Faults :
        LET b == retry_with_backoff(Top.retries, DefaultMaxRetries, r) IN
        /\ injected' = (injected \/ r # CwdReply(Top.remote))
        /\ CASE b.act = "return" ->
                  /\ cursor' = Top.remote
                  /\ stack' = SetTop([Top EXCEPT !.pc = "list", !.retries = 0])
                  /\ UNCHANGED <<exc, lastExit>>
             [] b.act = "sleep" ->
                  /\ stack' = SetTop([Top EXCEPT !.retries = b.retries])
                  /\ UNCHANGED <<cursor, exc, lastExit>>
             [] OTHER ->
                  /\ Return("return", cursor)
                  /\ UNCHANGED cursor
    /\ sess' = NoteCmd(sess)
    /\ UNCHANGED <<pc, argi, ldirs, lfiles, lastItem, bk>>

\* items = retry_with_backoff(list_items), no handler
list_items ==
    /\ Running("download_ftp_directory", "list")
    /\ \E r \in {NoExc} \cup Faults :
        LET b == retry_with_backoff(Top.retries, DefaultMaxRetries, r) IN
        /\ injected' = (injected \/ IsExc(r))
        /\ CASE b.act = "return" ->
                  /\ stack' = SetTop([Top EXCEPT !.pc = "loop", !.retries = 0, !.index = 1,
                                                 !.items = Listing(cursor), !.listed = TRUE])
                  /\ UNCHANGED <<exc, lastExit>>
             [] b.act = "sleep" ->
                  /\ stack' = SetTop([Top EXCEPT !.retries = b.retries])
                  /\ UNCHANGED <<exc, lastExit>>
             [] OTHER -> Raise(b.exc, cursor)
    /\ sess' = NoteCmd(sess)
    /\ UNCHANGED <<pc, argi, cursor, ldirs, lfiles, lastItem, bk>>

\* item.split(): every word a token, so tokens[8] is the 9th word alone
split_words(line) ==
    IF Len(line) <= 8 THEN line
    ELSE SubSeq(line, 1, 8) \o << W(line[9]) >>

\* item.split(maxsplit=8): at most 9 tokens, the 9th is the rest of the line
split_maxsplit8(line) ==
    IF Len(line) <= 8 THEN line
    ELSE SubSeq(line, 1, 8) \o << SubSeq(line, 9, Len(line)) >>

\* what the loop body does with one listing line: nothing, or one call
dispatch(item, remote_dir, local_dir) ==
    LET tokens == split_maxsplit8(item) IN
    IF Len(tokens) < 9 THEN <<>>
    ELSE << [kind |-> IF FirstChar(tokens[1]) = "d"
                      THEN "download_ftp_directory" ELSE "download_ftp_item",
             remote |-> Append(remote_dir, tokens[9]),
             local |-> Append(local_dir, tokens[9])] >>

\* for index, item in enumerate(items): one round of the loop
loop_step ==
    /\ Running("download_ftp_directory", "loop")
    /\ IF Top.index > Len(Top.items)
       THEN stack' = SetTop([Top EXCEPT !.pc = "leave"])
       ELSE LET d == dispatch(Top.items[Top.index], Top.remote, Top.local) IN
            IF d = <<>>
            THEN stack' = SetTop([Top EXCEPT !.index = @ + 1])
            ELSE stack' = Append(SetTop([Top EXCEPT !.pc = "call", !.disp = @ \o d]),
                                 IF d[1].kind = "download_ftp_directory"
                                 THEN WalkFrame(d[1].remote, d[1].local, cursor)
                                 ELSE ItemFrame(d[1].remote, d[1].local, cursor))
    /\ UNCHANGED <<pc, argi, exc, cursor, sess, ldirs, lfiles, lastExit, lastItem, injected, bk>>

\* ftp.cwd('..'), no handler; then the function returns
cwd_parent ==
    /\ Running("download_ftp_directory", "leave")
    /\ \E r \in {NoExc} \cup Faults :
        /\ injected' = (injected \/ IsExc(r))
        /\ IF IsExc(r)
           THEN /\ Raise(r, cursor)
                /\ UNCHANGED cursor
           ELSE /\ cursor' = Parent(cursor)
                /\ Return("return", Parent(cursor))
    /\ sess' = NoteCmd(sess)
    /\ UNCHANGED <<pc, argi, ldirs, lfiles, lastItem, bk>>

----------------------------------------------------------------------------
(* download_ftp_item *)

ItemRec(f, how, step, e) ==
    [remote |-> f.remote, local |-> f.local, how |-> how, retries |-> f.retries,
     dirty |-> f.dirty, cause |-> step, err |-> e]

\* the function returns (after its prints)
ItemReturn(how, step, e) ==
    /\ stack' = ReturnTo(Pop)
    /\ lastItem' = ItemRec(Top, how, step, e)
    /\ UNCHANGED <<exc, lastExit>>

\* the except clauses without the last one: except Exception is missing
item_handler_no_catch_all(e) ==
    IF IsPerm(e) THEN (IF Is550(e) THEN "directory" ELSE "report")
    ELSE "raise"

\* The except clauses of the try of lines 65-81, for an exception e raised in it:
\*   except ftplib.error_perm: 550 -> "directory" (line 77), else "report" (line 79)
\*   except Exception -> "report" (line 81)
\* Every exception of the model is an Exception, so none is left to "raise".
item_handler(e) ==
    IF IsPerm(e) THEN (IF Is550(e) THEN "directory" ELSE "report")
    ELSE IF e.cls \in {"error_temp", "OSError", "Exception"} THEN "report"
    ELSE "raise"

\* the exception e, raised at step, meets the except clauses
Caught(e, step) ==
    CASE item_handler(e) = "directory" ->
           /\ stack' = Append(SetTop([Top EXCEPT !.pc = "handover"]),
                              WalkFrame(Top.remote, Top.local, cursor))
           /\ lastItem' = ItemRec(Top, "handover", step, e)
           /\ UNCHANGED <<exc, lastExit>>
      [] item_handler(e) = "report" -> ItemReturn("skipped", step, e)
      [] OTHER ->
           /\ Raise(e, cursor)
           /\ lastItem' = ItemRec(Top, "raised", step, e)

\* ensure_dir_exists(os.path.dirname(local_path)), inside the try:
\* an OSError is caught by except Exception, reported, and the function returns
item_ensure_dir ==
    /\ Running("download_ftp_item", "mkdir")
    /\ \E r \in {IF MakedirsBlocked(Parent(Top.local)) THEN LocalErr ELSE NoExc, OSErr} :
        /\ injected' = (injected \/ r = OSErr)
        /\ IF IsExc(r)
           THEN /\ Caught(r, "mkdir")
                /\ UNCHANGED ldirs
           ELSE /\ ldirs' = ensure_dir_exists(ldirs, Parent(Top.local))
                /\ stack' = SetTop([Top EXCEPT !.pc = "attempt"])
                /\ UNCHANGED <<exc, lastExit, lastItem>>
    /\ UNCHANGED <<pc, argi, cursor, sess, lfiles, bk>>

\* What follows one call of download_attempt by retry_with_backoff (line 68), r being
\* what the attempt raised at step (size, open or retr) and files the local files it left:
\*   returned                      -> the prints of lines 69-73, return
\*   error_temp, retries left      -> sleep, next attempt
\*   any exception raised          -> the except clauses
Attempted(r, files, fault, step) ==
    LET b == retry_with_backoff(Top.retries, DefaultMaxRetries, r) IN
    /\ lfiles' = files
    /\ injected' = (injected \/ fault)
    /\ CASE b.act = "return" -> ItemReturn("downloaded", "none", NoExc)
         [] b.act = "sleep" ->
              /\ stack' = SetTop([Top EXCEPT !.retries = b.retries,
                                             !.dirty = @ \/ (Top.local \in DOMAIN files
                                                             /\ files[Top.local] # <<>>)])
              /\ UNCHANGED <<exc, lastExit, lastItem>>
         [] OTHER -> Caught(b.exc, step)

\* download_attempt: file_size = ftp.size(remote_path); with open(local_path, 'wb'):
\* ftp.retrbinary(..., callback), the callback writing each chunk to the file
download_attempt ==
    /\ Running("download_ftp_item", "attempt")
    /\ \E sz \in SizeReplies(Top.remote) \cup Faults :
        IF IsExc(sz)
        THEN Attempted(sz, lfiles, sz \notin SizeReplies(Top.remote), "size")
        ELSE \E o \in {IF OpenBlocked(Top.local) THEN LocalErr ELSE NoExc, OSErr} :
            IF IsExc(o)
            THEN Attempted(o, lfiles, o = OSErr, "open")
            ELSE \E t \in RetrOutcomes(Top.remote) :
                Attempted(t.r,
                          write_chunks(open_wb(lfiles, Top.local), Top.local,
                                       SubSeq(RemoteData(Top.remote), 1, t.n)),
                          t # RetrReply(Top.remote), "retr")
    /\ sess' = NoteCmd(sess)
    /\ UNCHANGED <<pc, argi, cursor, ldirs, bk>>

\* the call of line 77 returned: the except clause and the function end
item_end ==
    /\ Running("download_ftp_item", "end")
    /\ stack' = ReturnTo(Pop)
    /\ UNCHANGED <<pc, argi, exc, cursor, sess, ldirs, lfiles, lastExit, lastItem, injected, bk>>

----------------------------------------------------------------------------
(* The program *)

Next ==
    \/ main_next
    \/ ftp_connect
    \/ ftp_login
    \/ with_exit
    \/ ftp_finally
    \/ main_sleep
    \/ Propagate
    \/ directory_exists_pwd
    \/ directory_exists_cwd
    \/ directory_exists_back
    \/ walk_ensure_dir
    \/ change_directory
    \/ list_items
    \/ loop_step
    \/ cwd_parent
    \/ item_ensure_dir
    \/ download_attempt
    \/ item_end

Spec == Init /\ [][Next]_vars

----------------------------------------------------------------------------
(* retry_with_backoff on its own: any operation, any parameters *)

\* what one invocation of func() can do
FuncOutcomes == {NoExc, ErrorTemp, ErrorTemp450, ErrorPerm550, OSErr}

MaxRetriesArgs == 0..MaxRetriesArg \cup {DefaultMaxRetries}
InitialDelayArgs == 1..MaxInitialDelay \cup {DefaultInitialDelay}
MaxDelayArgs == 1..MaxDelayArg \cup {DefaultMaxDelay}

\* retry_with_backoff(func, max_retries, initial_delay, max_delay): retries = 0
backoff_entry(max_retries, initial_delay, max_delay) ==
    [state |-> "running", max_retries |-> max_retries, initial_delay |-> initial_delay,
     max_delay |-> max_delay, retries |-> 0, hist |-> <<>>, sleeps |-> 0, delay |-> 0,
     exc |-> NoExc]

InitBackoff ==
    /\ pc = "backoff"
    /\ argi = 1
    /\ stack = <<>>
    /\ exc = NoExc
    /\ cursor = <<>>
    /\ sess = NoSession
    /\ ldirs = {<<>>}
    /\ lfiles = [q \in {} |-> <<>>]
    /\ lastExit = NoExit
    /\ lastItem = NoItem
    /\ injected = FALSE
    /\ \E mr \in MaxRetriesArgs, id \in InitialDelayArgs, md \in MaxDelayArgs :
        bk = backoff_entry(mr, id, md)

\* one round of the while-loop: func() is invoked and does r; jitter is the draw
backoff_round ==
    /\ pc = "backoff"
    /\ bk.state = "running"
    /\ \E r \in FuncOutcomes, jitter \in 0..(JitterSteps - 1) :
        LET b == retry_with_backoff(bk.retries, bk.max_retries, r) IN
        bk' = CASE b.act = "return" ->
                     [bk EXCEPT !.state = "returned", !.hist = Append(@, r)]
                [] b.act = "sleep" ->
                     [bk EXCEPT !.hist = Append(@, r), !.sleeps = @ + 1,
                                !.delay = backoff_delay(bk.initial_delay, bk.retries,
                                                        jitter, bk.max_delay),
                                !.retries = b.retries]
                [] OTHER ->
                     [bk EXCEPT !.state = "raised", !.hist = Append(@, r), !.exc = b.exc]
    /\ UNCHANGED <<pc, argi, stack, exc, cursor, sess, ldirs, lfiles, lastExit, lastItem, injected>>

\* the caller calls retry_with_backoff again
backoff_call ==
    /\ pc = "backoff"
    /\ bk.state \in {"returned", "raised"}
    /\ bk' = backoff_entry(bk.max_retries, bk.initial_delay, bk.max_delay)
    /\ UNCHANGED <<pc, argi, stack, exc, cursor, sess, ldirs, lfiles, lastExit, lastItem, injected>>

NextBackoff ==
    \/ backoff_round
    \/ backoff_call

SpecBackoff == InitBackoff /\ [][NextBackoff]_vars

----------------------------------------------------------------------------
(* Properties *)

Frames == { stack[i] : i \in 1..Len(stack) }
Terminated == pc \in {"exit", "crashed"}

\* C1: every call of download_ftp_directory for a subdirectory D made with the
\* cursor at D's parent leaves the cursor at the parent again, however it ends
\* (return or raise).
C1_CursorRestored ==
    (/\ lastExit.how # "none"
     /\ Len(lastExit.remote) > 1
     /\ lastExit.cursor0 = Parent(lastExit.remote))
    => lastExit.cursor1 = lastExit.cursor0

\* C2: no failure leaves the call of download_ftp_directory or download_ftp_item
\* it arose in: no exception ever arrives at a call site of the walk, and so the
\* root walk never ends by an exception.
C2_FailuresStayLocal == ~(pc = "walk" /\ IsExc(exc))

\* C3: a failure that escapes the download of one accession is caught at top
\* level: the program ends only after every accession of the command line has
\* been processed.
C3_LaterRootsProcessed == Terminated => (pc = "exit" /\ argi = Len(Argv) + 1)

\* C4: a session whose control connection was established is released exactly
\* once on every way out of the with-block (one quit, one close exactly when the
\* quit failed), it is not released before, and no command is sent after release.
C4_ReleasedOnce ==
    /\ ~sess.late
    /\ ~sess.ftp => (sess.quits = 0 /\ sess.closes = 0 /\ ~sess.released)
    /\ pc \in {"login", "walk", "finally"} =>
          (sess.ftp /\ ~sess.released /\ sess.quits = 0 /\ sess.closes = 0)
    /\ (sess.ftp /\ pc \in {"sleep", "main", "exit", "crashed"}) =>
          /\ sess.released
          /\ sess.quits = 1
          /\ sess.closes = (IF sess.quit = "failed" THEN 1 ELSE 0)

\* C4 witness: the walk raised, quit() failed, and the session was closed once.
C4_Witness ==
    /\ pc = "crashed" /\ lastExit.how = "raise"
    /\ sess.ftp /\ sess.released /\ sess.quit = "failed" /\ sess.closes = 1

AllTransient(h) == \A i \in 1..Len(h) : IsTemp(h[i])

\* C5: while every invocation raises error_temp, retry_with_backoff goes on for
\* exactly max_retries sleeps and max_retries + 1 invocations, starting from
\* retries = 0, and then raises the max-retries error carrying the last cause.
C5_ExactlyMaxRetries ==
    (bk.state # "idle" /\ AllTransient(bk.hist)) =>
        /\ bk.state # "returned"
        /\ bk.state = "running" =>
              /\ bk.retries = Len(bk.hist)
              /\ bk.sleeps = Len(bk.hist)
              /\ Len(bk.hist) <= bk.max_retries
        /\ bk.state = "raised" =>
              /\ Len(bk.hist) = bk.max_retries + 1
              /\ bk.sleeps = bk.max_retries
              /\ bk.exc = MaxRetriesReached(bk.hist[Len(bk.hist)])

\* C5 witness: retries exhausted after at least two sleeps, the last cause (450)
\* differing from the first (421).
C5_Witness ==
    /\ bk.state = "raised" /\ AllTransient(bk.hist)
    /\ bk.max_retries >= 2
    /\ bk.hist[1] = ErrorTemp /\ bk.hist[Len(bk.hist)] = ErrorTemp450

\* C6: a failure that is not error_temp ends retry_with_backoff at once, at
\* whatever attempt: it is the last invocation, the exception raised is that
\* failure itself, and the sleeps are those of the error_temp failures before it.
C6_OnlyTransientRetried ==
    \A i \in 1..Len(bk.hist) :
        (IsExc(bk.hist[i]) /\ ~IsTemp(bk.hist[i])) =>
            /\ i = Len(bk.hist)
            /\ bk.state = "raised"
            /\ bk.exc = bk.hist[i]
            /\ bk.sleeps = i - 1

\* C6 witness: a permanent error after two transient ones.
C6_Witness ==
    /\ bk.state = "raised" /\ Len(bk.hist) = 3
    /\ IsTemp(bk.hist[1]) /\ IsTemp(bk.hist[2]) /\ bk.hist[3] = ErrorPerm550

\* C7: the delay slept before retry k (in ticks of 1/JitterSteps second) is
\* at least 0, less than 2^k * initial_delay + 1 second, and at most max_delay.
C7_DelayBounds ==
    bk.sleeps > 0 =>
        LET k == bk.sleeps - 1 IN
        /\ k < bk.max_retries
        /\ 0 <= bk.delay
        /\ bk.delay < Pow2(k) * bk.initial_delay * JitterSteps + JitterSteps
        /\ bk.delay <= bk.max_delay * JitterSteps

\* C7 witness: a retry whose delay was cut to max_delay, after one that was not.
C7_Witness ==
    /\ bk.sleeps >= 2
    /\ bk.delay = bk.max_delay * JitterSteps
    /\ bk.delay < Pow2(bk.sleeps - 1) * bk.initial_delay * JitterSteps

\* C8: a transfer that succeeds, after however many attempts that failed with
\* error_temp, leaves exactly the remote file's bytes in the local file (what a
\* transfer succeeding at its first attempt leaves).
C8_RetriedTransferIdentical ==
    lastItem.how = "downloaded" =>
        /\ lastItem.local \in DOMAIN lfiles
        /\ lfiles[lastItem.local] = RemoteData(lastItem.remote)

\* C8 witness: success at the third attempt, an earlier attempt having written bytes.
C8_Witness ==
    /\ lastItem.how = "downloaded" /\ lastItem.retries = 2 /\ lastItem.dirty
    /\ Len(RemoteData(lastItem.remote)) = FileChunks

LocalOf(f, remote, local) == local \o SubSeq(f, Len(remote) + 1, Len(f))

\* C9: when the transfer of a path that is a remote directory ended with a 550
\* and was handed to download_ftp_directory, then (the server and the disk
\* otherwise behaving) that walk returns and every file beneath the path has
\* been downloaded.
C9_HandoverDownloadsChildren ==
    (/\ pc = "walk" /\ stack # <<>> /\ ~injected
     /\ Top.fn = "download_ftp_item" /\ Top.remote \in RemoteDirs
     /\ (Top.pc = "end" \/ (Top.pc = "handover" /\ IsExc(exc))))
    => /\ ~IsExc(exc)
       /\ \A f \in RemoteFileSet :
            IsPrefix(Top.remote, f) =>
                /\ LocalOf(f, Top.remote, Top.local) \in DOMAIN lfiles
                /\ lfiles[LocalOf(f, Top.remote, Top.local)] = RemoteData(f)

\* the actions a listing asks for: one per line of at least 9 words, in order
RECURSIVE Expected(_, _, _)
Expected(items, remote_dir, local_dir) ==
    IF items = <<>> THEN <<>>
    ELSE LET line == Head(items)
             name == SubSeq(line, 9, Len(line))
         IN (IF Len(line) >= 9
             THEN << [kind |-> IF FirstChar(line[1]) = "d"
                               THEN "download_ftp_directory" ELSE "download_ftp_item",
                      remote |-> remote_dir \o <<name>>,
                      local |-> local_dir \o <<name>>] >>
             ELSE <<>>) \o Expected(Tail(items), remote_dir, local_dir)

\* C10: a call of download_ftp_directory that obtained its listing has, when it
\* ends, dispatched exactly one action per listing line of at least 9 words, in
\* listing order: a sub-walk for a 'd' line, a transfer otherwise.
C10_OneActionPerLine ==
    lastExit.listed =>
        lastExit.disp = Expected(lastExit.items, lastExit.remote, lastExit.local)

\* What does hold of the loop: at every moment the actions dispatched by a walk
\* are those of the listing lines it has gone through.
DispatchedPrefix ==
    \A f \in Frames :
        (f.fn = "download_ftp_directory" /\ f.listed) =>
            f.disp = Expected(SubSeq(f.items, 1, IF f.pc = "loop" THEN f.index - 1
                                                 ELSE Min(f.index, Len(f.items))),
                              f.remote, f.local)

\* the local path mirroring remote path q for accession acc, and back
LocalPath(acc, q) == LocalOf(q, Root(acc), <<W(acc)>>)
RemoteOf(p) == Root(p[1][1]) \o Tail(p)
Under(acc, paths) == { q \in paths : IsPrefix(Root(acc), q) }
LocalUnder(acc, paths) == { p \in paths : IsPrefix(<<W(acc)>>, p) }

\* the local tree of accession acc is the remote tree under its root path
Mirror(acc) ==
    /\ LocalUnder(acc, DOMAIN lfiles) = { LocalPath(acc, f) : f \in Under(acc, RemoteFileSet) }
    /\ LocalUnder(acc, ldirs) = { LocalPath(acc, d) : d \in Under(acc, RemoteDirs) }
    /\ \A f \in Under(acc, RemoteFileSet) : lfiles[LocalPath(acc, f)] = RemoteData(f)

\* C11: when download_from_ftp_url has completed for an accession and neither
\* the server nor the disk has failed, the local tree under the accession
\* directory has exactly the remote tree's directories and files, each file
\* with the remote bytes.
C11_MirrorsRemoteTree == (pc = "sleep" /\ ~injected) => Mirror(Argv[argi])

\* C11 witness: the first accession (nested directories, a name with a space,
\* an entry listed as a link) has completed without any failure.
C11_Witness == pc = "sleep" /\ ~injected /\ argi = 1

\* C12: a failing size query does not abort the transfer of a remote file: no
\* call of download_ftp_item for a file ends skipped or handed over because
\* ftp.size raised.
C12_SizeFailureHarmless ==
    ~(/\ lastItem.remote \in RemoteFileSet
      /\ lastItem.cause = "size"
      /\ lastItem.how \in {"skipped", "handover"})

\* C13: every local file lies in an existing local directory; a transfer attempt
\* starts with its local directory in place; and every remote directory the
\* walk has entered has its one local directory, the mirror image of its path,
\* created before the walk entered it.
C13_DirectoryBeforeFile ==
    /\ \A p \in DOMAIN lfiles : Parent(p) \in ldirs
    /\ \A f \in Frames :
        /\ (f.fn = "download_ftp_item" /\ f.pc = "attempt") => Parent(f.local) \in ldirs
        /\ (f.fn = "download_ftp_directory" /\ f.pc \in {"enter", "list", "loop", "call", "leave"}) =>
              /\ f.local \in ldirs
              /\ f.local = LocalPath(Argv[argi], f.remote)

\* C13 witness: a file has been written in a subdirectory while its walk goes on.
C13_Witness ==
    /\ \E p \in DOMAIN lfiles : Len(p) = 3 /\ lfiles[p] # <<>>
    /\ stack # <<>> /\ Top.fn = "download_ftp_directory" /\ Top.pc = "loop" /\ Len(Top.local) = 2

LastDispatched(f) == f.disp[Len(f.disp)]

\* C14: a call of download_ftp_item whose try raised anything but an error_perm
\* 550 ends skipped by a normal return, never by raising; the only exception
\* that can come out of a call of download_ftp_item is one raised by the walk of
\* line 77.
C14_OtherFailuresSkipFile ==
    /\ lastItem.how # "raised"
    /\ lastItem.how # "none" =>
          /\ (lastItem.how = "downloaded") = ~IsExc(lastItem.err)
          /\ (lastItem.how = "handover") = (IsPerm(lastItem.err) /\ Is550(lastItem.err))
          /\ (lastItem.how = "skipped") =
                (IsExc(lastItem.err) /\ ~(IsPerm(lastItem.err) /\ Is550(lastItem.err)))
    /\ (/\ pc = "walk" /\ IsExc(exc) /\ stack # <<>>
        /\ Top.fn = "download_ftp_directory" /\ Top.pc = "call"
        /\ LastDispatched(Top).kind = "download_ftp_item")
       => (lastExit.how = "raise" /\ lastExit.remote = LastDispatched(Top).remote)

\* C14 witness: a transfer whose retries were exhausted was skipped and the loop
\* of the containing walk is at its next entry.
C14_Witness ==
    /\ lastItem.how = "skipped" /\ lastItem.err.msg = "Max retries reached"
    /\ pc = "walk" /\ ~IsExc(exc) /\ stack # <<>>
    /\ Top.fn = "download_ftp_directory" /\ Top.pc = "loop" /\ Top.index <= Len(Top.items)
    /\ Top.disp # <<>> /\ LastDispatched(Top).remote = lastItem.remote

\* C15: a walk whose listing call has exhausted its retries returns normally:
\* it never ends by raising the max-retries error of retry_with_backoff(list_items).
C15_ListingExhaustionReturns ==
    ~(/\ lastExit.how = "raise"
      /\ lastExit.at = "list"
      /\ lastExit.exc.msg = "Max retries reached")

\* C16: a single error_temp of the connection or of a change of directory (the
\* probe and its way back, the return to the parent) is retried: it never
\* reaches the caller as that error_temp.
C16_EveryCallRetried ==
    /\ ~(lastExit.how = "raise" /\ lastExit.at \in {"probe", "back", "leave"}
         /\ IsTemp(lastExit.exc))
    /\ ~(pc = "crashed" /\ ~sess.ftp /\ IsTemp(exc))

\* C17: when the program has run to its end, every local regular file has the
\* bytes of its remote counterpart.
C17_NoPartialFiles ==
    pc = "exit" =>
        \A p \in DOMAIN lfiles :
            /\ RemoteOf(p) \in RemoteFileSet
            /\ lfiles[p] = RemoteData(RemoteOf(p))

\* C18: directory_exists returns with the cursor where it was when called,
\* whether it returns False (the walk returns at once) or True.
C18_ProbeKeepsCursor ==
    /\ (lastExit.how = "return" /\ lastExit.at \in {"probe", "back"}) =>
          lastExit.cursor1 = lastExit.cursor0
    /\ Running("download_ftp_directory", "mkdir") => cursor = Top.cursor0

\* C19: when download_ftp_item calls download_ftp_directory for its path (line
\* 77), no regular local file is at local_path.
C19_NoFileAtHandover ==
    (/\ pc = "walk" /\ Len(stack) >= 2
     /\ Top.fn = "download_ftp_directory" /\ Top.pc = "pwd"
     /\ stack[Len(stack) - 1].fn = "download_ftp_item")
    => Top.local \notin DOMAIN lfiles

----------------------------------------------------------------------------
(* The program runs on: it is one sequential process, every sleep ends and
   every command of ftplib returns or raises, so a step that can be taken is taken *)

SpecLive == Init /\ [][Next]_vars /\ WF_vars(Next)

\* C20: no call of retry_with_backoff goes beyond max_retries retries
\* (max_retries + 1 invocations), and the program, walking a finite remote tree
\* without '.' or '..' entries, comes to its end (normally or by an uncaught
\* exception) under every pattern of failures.
C20_Terminates ==
    /\ [](\A f \in Frames : f.retries <= DefaultMaxRetries)
    /\ <>Terminated

\* C20 witness: the program has ended after a walk that met failures.
C20_Witness == pc = "exit" /\ injected

====
